---- MODULE Spec2Model ----
(***************************************************************************)
(* Orchestration core of the RPG Maker MZ agent workflow                   *)
(* (rmmz_agents.py, rmmz_schemas.py, rmmz_tools.py).                       *)
(*                                                                         *)
(* One behaviour is one run of the workflow loop of run_demo over a        *)
(* GameImplementationState: every iteration takes the routing decision of  *)
(* route_implementation and runs the process method of the agent           *)
(* it selects.  The agents run without an LLM, as in run_demo, so           *)
(* _run_llm_chain returns its placeholder text and changes nothing.        *)
(* Optional values of the Python code are modelled as                      *)
(* sequences of length at most one (None is the empty sequence), float     *)
(* progress is counted in tenths (the increment 0.1 is 1), and a list that *)
(* the code only tests for membership (AgentTask.dependencies) is a set.   *)
(***************************************************************************)
EXTENDS Integers, Sequences, FiniteSets, TLC

VARIABLES
    state,        \* the GameImplementationState threaded through the loop
    tools,        \* the RPGMakerTools instance shared by the agents, or None
    i,            \* number of loop iterations of run_demo already executed
    pc,           \* "loop" while run_demo iterates, "done" after the loop
    selections,   \* history: the roles route_implementation returned
    last,         \* history: what the last dispatched process did
    initial,      \* history: the state the run was started with
    switch_calls  \* history: the add_change_switch_command calls made

vars == <<state, tools, i, pc, selections, last, initial, switch_calls>>

-----------------------------------------------------------------------------
(* Optional[...] values *)

None == <<>>

Some(x) == <<x>>

Get(o) == o[1]

Range(s) == {s[k] : k \in 1..Len(s)}

Max(S) == CHOOSE x \in S : \A y \in S : y <= x

-----------------------------------------------------------------------------
(* Bounds of the explored inputs *)

\* longest task queue a run is started with
MaxQueue == 2

\* iterations of the loop of run_demo
max_steps == 5

-----------------------------------------------------------------------------
(* rmmz_schemas.py *)

\* AgentTask with the defaults of the schema: status "pending", nobody
\* assigned, no result
AgentTask(id, type, priority, dependencies) ==
    [id |-> id, type |-> type, priority |-> priority,
     dependencies |-> dependencies, status |-> "pending",
     assigned_to |-> None, result |-> None]

\* GameLocation with the defaults of the schema (id None)
GameLocation(name, width, height, tileset_id) ==
    [id |-> None, name |-> name, width |-> width, height |-> height,
     tileset_id |-> tileset_id]

\* AgentState: the fields every agent state starts with
AgentState ==
    [current_task |-> None, completed_tasks |-> <<>>]

WorldBuilderAgentState ==
    [current_task |-> None, completed_tasks |-> <<>>, maps_created |-> <<>>]

EventEngineerAgentState ==
    [current_task |-> None, completed_tasks |-> <<>>, events_created |-> <<>>]

DirectorAgentState ==
    [current_task |-> None, completed_tasks |-> <<>>, task_queue |-> <<>>]

\* GameImplementationState as initialize_game_state builds it, for a given
\* queue, stage and progress
GameImplementationState(task_queue, current_stage, implementation_progress) ==
    [game_data |-> [locations |-> <<>>, cutscenes |-> <<>>],
     director |-> [DirectorAgentState EXCEPT !.task_queue = task_queue],
     world_builder |-> None,
     event_engineer |-> None,
     combat_system |-> None,
     asset_manager |-> None,
     tester |-> None,
     current_stage |-> current_stage,
     implementation_progress |-> implementation_progress]

Stages == {"planning", "implementation", "testing", "refinement"}


-----------------------------------------------------------------------------
(* Strings.  TLC strings are atoms, so the string functions the agents     *)
(* apply are tabulated on the task ids and location names of the model.    *)

\* task.id.replace("create_", "").replace("_", " ")
location_name_of(id) ==
    CASE id = "create_starting_town"   -> "starting town"
      [] id = "create_intro_cutscene"  -> "intro cutscene"
      [] id = "create_dark_forest"     -> "dark forest"
      [] id = "create_hidden_cave"     -> "hidden cave"
      [] id = "create_shop_event"      -> "shop event"
      [] id = "create_elder_dialogue"  -> "elder dialogue"
      [] id = "create_fire_skill"      -> "fire skill"
      [] id = "create_slime_enemy"     -> "slime enemy"
      [] id = "create_slime_troop"     -> "slime troop"
      [] id = "create_ending_cutscene" -> "ending cutscene"
      [] id = "create_dream_cutscene"  -> "dream cutscene"
      [] id = "create_title_cutscene"  -> "title cutscene"
      [] id = "redraw_town_map"        -> "redraw town map"
      [] id = "organize_assets"        -> "organize assets"
      [] id = "setup_hero"             -> "setup hero"

\* str.title()
title(s) ==
    CASE s = "starting town" -> "Starting Town"
      [] s = "dark forest"   -> "Dark Forest"
      [] s = "hidden cave"   -> "Hidden Cave"
      [] OTHER               -> s

\* faulty variant of lower: the names are compared as they are written
lower_unchanged(s) == s

\* str.lower()
lower(s) ==
    CASE s = "Starting Town" -> "starting town"
      [] s = "Dark Forest"   -> "dark forest"
      [] s = "Hidden Cave"   -> "hidden cave"
      [] OTHER               -> s

\* task.type.startswith("map")
startswith_map(type) == type \in {"map_creation", "map_editing"}

-----------------------------------------------------------------------------
(* rmmz_tools.py: the record store.  map_infos is the parsed MapInfos.json *)
(* (a dict of map ids, or not a dict when the file holds a JSON array),    *)
(* map_files the MapNNN.json files on disk with the event ids they hold.   *)

RPGMakerTools(map_infos_is_dict, map_infos, map_files) ==
    [map_infos_is_dict |-> map_infos_is_dict, map_infos |-> map_infos,
     map_files |-> map_files]

\* _save_json: writes the file unless the write fails; the failure is
\* swallowed (returns False, which no caller reads)
save_json(map_files, map_id, data, write_ok) ==
    IF write_ok
    THEN [m \in (DOMAIN map_files) \cup {map_id} |->
             IF m = map_id THEN data ELSE map_files[m]]
    ELSE map_files

\* get_map / _load_json: the parsed file, or the empty dict ({} here is
\* "no map data") when the file is missing
get_map(tl, map_id) ==
    IF map_id \in DOMAIN tl.map_files THEN Some(tl.map_files[map_id]) ELSE None

\* max(ids) + 1 if ids else 1
next_id(ids) == IF ids # {} THEN Max(ids) + 1 ELSE 1

\* create_map: raises when map_infos has no .values() (not a dict);
\* otherwise allocates the id, saves the map file and returns the id
\* whether or not the save succeeded
create_map(tl, name, width, height, tileset_id, write_ok) ==
    IF ~tl.map_infos_is_dict
    THEN [raised |-> TRUE, id |-> 0, tools |-> tl]
    ELSE LET nid == next_id(tl.map_infos)
         IN [raised |-> FALSE, id |-> nid,
             tools |-> [tl EXCEPT
                          !.map_infos = @ \cup {nid},
                          !.map_files = save_json(@, nid, {}, write_ok)]]

\* create_event: raises when map_id is None (the file name cannot be
\* formatted) or when the map file is missing; otherwise allocates the
\* event id, saves the map file and returns the id
create_event(tl, map_id, write_ok) ==
    IF map_id = None \/ get_map(tl, Get(map_id)) = None
    THEN [raised |-> TRUE, id |-> 0, tools |-> tl]
    ELSE LET events == Get(get_map(tl, Get(map_id)))
             nid == next_id(events)
         IN [raised |-> FALSE, id |-> nid,
             tools |-> [tl EXCEPT
                          !.map_files = save_json(@, Get(map_id),
                                                  events \cup {nid}, write_ok)]]


\* Python values of the two types add_change_switch_command mixes, tagged
\* so that a bool is never compared with an int
py_bool(b) == <<"bool", b>>

py_int(n) == <<"int", n>>

\* the truth value Python gives a bool or an int
py_truthy(v) == IF v[1] = "bool" THEN v[2] ELSE v[2] # 0

\* a and b: a when a is falsy, else b
py_and(a, b) == IF py_truthy(a) THEN b ELSE a

\* a or b: a when a is truthy, else b
py_or(a, b) == IF py_truthy(a) THEN a ELSE b

\* add_change_switch_command: EventCommand(code=121,
\* parameters=[switch_id, switch_id, value and 0 or 1])
add_change_switch_command(switch_id, value) ==
    [code |-> 121,
     parameters |-> <<py_int(switch_id), py_int(switch_id),
                      py_or(py_and(py_bool(value), py_int(0)), py_int(1))>>,
     indent |-> 0]

-----------------------------------------------------------------------------
(* rmmz_agents.py: helpers shared by the agents *)

EventTypes == {"event_creation", "cutscene_creation", "dialogue_creation"}

CombatTypes == {"skill_creation", "enemy_creation", "troop_creation"}

AssetTypes == {"asset_management"}

\* faulty variant of dependencies_met: the dependency loop is forgotten
dependencies_ignored(task, completed_tasks) == TRUE

\* the dependency loop of EventEngineerAgent.process and of
\* route_implementation: every dep_id is in director.completed_tasks
dependencies_met(task, completed_tasks) ==
    \A dep_id \in task.dependencies : dep_id \in Range(completed_tasks)

\* for t in ...: if ...: task = t; break -- the first of the indices
\* whose element satisfies the test of the loop, 0 if there is none
first_index(matching) ==
    IF matching = {} THEN 0
    ELSE CHOOSE k \in matching : \A j \in matching : k <= j

\* faulty variant of remove_from_queue: the filter is forgotten
keep_in_queue(queue, task_id) == queue

\* faulty variant of remove_from_queue: failed tasks are swept out with
\* the completed one
remove_with_failed(queue, task_id) ==
    SelectSeq(queue, LAMBDA t : t.id # task_id /\ t.status # "failed")

\* [t for t in state.director.task_queue if t.id != task_id]
remove_from_queue(queue, task_id) ==
    SelectSeq(queue, LAMBDA t : t.id # task_id)

\* the increment of state.implementation_progress += 0.1, in tenths
progress_increment == 1

\* faulty variant of add_progress: the sign of the update is wrong
lose_progress(progress) == progress - progress_increment

\* state.implementation_progress += 0.1
add_progress(progress) == progress + progress_increment

\* faulty variant of claim: the assignee is not recorded
claim_unassigned(task, agent_id) == [task EXCEPT !.status = "in_progress"]

\* faulty variant of claim: the status is left as it was
claim_status_unset(task, agent_id) ==
    [task EXCEPT !.assigned_to = Some(agent_id)]

\* task.status = "in_progress"; task.assigned_to = self.agent_id
claim(task, agent_id) ==
    [task EXCEPT !.status = "in_progress", !.assigned_to = Some(agent_id)]

\* faulty variant of mark_failed: the task is put back to pending
mark_pending_again(task) == [task EXCEPT !.status = "pending"]

\* except Exception: task.status = "failed"
mark_failed(task) == [task EXCEPT !.status = "failed"]

\* faulty variant of director_completed_append: the director's list is
\* left as it was
director_completed_forgotten(completed_tasks, task_id) == completed_tasks

\* faulty variant of director_completed_append: the newest id goes first
director_completed_prepend(completed_tasks, task_id) ==
    <<task_id>> \o completed_tasks

\* state.director.completed_tasks.append(task.id)
director_completed_append(completed_tasks, task_id) ==
    Append(completed_tasks, task_id)

\* what one process call reports to the history variables
Outcome(s, tl, claimed, result, task) ==
    [state |-> s, tools |-> tl, claimed |-> claimed, result |-> result,
     task |-> task]

-----------------------------------------------------------------------------
(* DirectorAgent.process *)

\* faulty variant of world_builder_task: the director hands the task to
\* the world builder itself
world_builder_task_assigned ==
    [AgentTask("create_starting_town", "map_creation", 1, {})
        EXCEPT !.assigned_to = Some("world_builder")]

world_builder_task ==
    AgentTask("create_starting_town", "map_creation", 1, {})

\* faulty variant of event_engineer_task: the id of the map task is used
\* once more
event_engineer_task_same_id ==
    AgentTask("create_starting_town", "cutscene_creation", 2, {})

\* faulty variant of event_engineer_task: the dependency is left out
event_engineer_task_independent ==
    AgentTask("create_intro_cutscene", "cutscene_creation", 2, {})

event_engineer_task ==
    AgentTask("create_intro_cutscene", "cutscene_creation", 2,
              {"create_starting_town"})

\* faulty variant of DirectorProcess: the batch is added to the queue
\* instead of replacing it
DirectorProcess_extending(s, tl) ==
    IF s.current_stage = "planning"
    THEN Outcome([s EXCEPT
                    !.director.task_queue =
                        @ \o <<world_builder_task, event_engineer_task>>,
                    !.current_stage = "implementation"],
                 tl, None, "planned", None)
    ELSE Outcome(s, tl, None, "coordinated", None)

\* faulty variant of DirectorProcess: planning hands over to testing
DirectorProcess_to_testing(s, tl) ==
    IF s.current_stage = "planning"
    THEN Outcome([s EXCEPT
                    !.director.task_queue =
                        <<world_builder_task, event_engineer_task>>,
                    !.current_stage = "testing"],
                 tl, None, "planned", None)
    ELSE Outcome(s, tl, None, "coordinated", None)

\* faulty variant of DirectorProcess: outside planning the director moves
\* the stage on to testing
DirectorProcess_advancing(s, tl) ==
    IF s.current_stage = "planning"
    THEN Outcome([s EXCEPT
                    !.director.task_queue =
                        <<world_builder_task, event_engineer_task>>,
                    !.current_stage = "implementation"],
                 tl, None, "planned", None)
    ELSE Outcome([s EXCEPT !.current_stage = "testing"],
                 tl, None, "coordinated", None)

DirectorProcess(s, tl) ==
    IF s.current_stage = "planning"
    THEN Outcome([s EXCEPT
                    !.director.task_queue =
                        <<world_builder_task, event_engineer_task>>,
                    !.current_stage = "implementation"],
                 tl, None, "planned", None)
    ELSE Outcome(s, tl, None, "coordinated", None)

-----------------------------------------------------------------------------
(* WorldBuilderAgent.process *)

\* faulty variant of world_builder_wants: only a task of priority 1 is
\* taken
world_builder_wants_urgent(s, t) ==
    t.type = "map_creation" /\ t.status = "pending" /\ t.priority = 1

\* faulty variant of world_builder_wants: a failed task is taken up again
world_builder_wants_retry(s, t) ==
    t.type = "map_creation" /\ t.status \in {"pending", "failed"}

\* if t.type == "map_creation" and t.status == "pending"
world_builder_wants(s, t) ==
    t.type = "map_creation" /\ t.status = "pending"

\* faulty variant of world_builder_state_ensured: the agent state is
\* created anew at every dispatch
world_builder_state_recreated(s) ==
    [s EXCEPT !.world_builder = Some(WorldBuilderAgentState)]

\* if not state.world_builder: state.world_builder = ...
world_builder_state_ensured(s) ==
    IF s.world_builder = None
    THEN [s EXCEPT !.world_builder = Some(WorldBuilderAgentState)]
    ELSE s

WorldBuilderProcess(s, tl, write_ok) ==
    LET s1 == world_builder_state_ensured(s)
        queue == s1.director.task_queue
        k == first_index(
            {n \in 1..Len(queue) :
                world_builder_wants(s1, queue[n])})
    IN
    IF k = 0 THEN Outcome(s1, tl, None, "no_task", None)
    ELSE
    LET \* claim
        claimed == claim(queue[k], "world_builder")
        location_name == location_name_of(claimed.id)
        locations == s1.game_data.locations
        found == first_index(
            {n \in 1..Len(locations) :
                lower(locations[n].name) = lower(location_name)})
        \* the default location, appended when none matches
        locations2 == IF found = 0
                      THEN Append(locations,
                                  GameLocation(title(location_name), 20, 15, 1))
                      ELSE locations
        location == IF found = 0 THEN locations2[Len(locations2)]
                    ELSE locations2[found]
        s2 == [s1 EXCEPT
                 !.director.task_queue[k] = claimed,
                 !.world_builder =
                     Some([Get(@) EXCEPT !.current_task = Some(claimed)]),
                 !.game_data.locations = locations2]
    IN
    IF tl = None
    THEN \* no tools: nothing after the claim
         Outcome(s2, tl, Some(claimed.id), "untouched", Some(claimed))
    ELSE
    LET made == create_map(Get(tl), location.name, location.width,
                           location.height, location.tileset_id, write_ok)
    IN
    IF made.raised
    THEN \* except: task.status = "failed" (the task object is shared by
         \* the queue and by current_task)
         LET failed == mark_failed(claimed)
         IN Outcome([s2 EXCEPT
                       !.director.task_queue[k] = failed,
                       !.world_builder =
                           Some([Get(@) EXCEPT !.current_task = Some(failed)])],
                    Some(made.tools), Some(claimed.id), "failed", Some(failed))
    ELSE
         LET completed == [claimed EXCEPT
                             !.status = "completed",
                             !.result = Some([map_id |-> made.id])]
             named == first_index(
                 {n \in 1..Len(locations2) :
                     locations2[n].name = location.name})
         IN Outcome([s2 EXCEPT
                       !.world_builder =
                           Some([Get(@) EXCEPT
                                   !.maps_created = Append(@, made.id),
                                   !.current_task = None,
                                   !.completed_tasks = Append(@, claimed.id)]),
                       !.game_data.locations[named].id = Some(made.id),
                       !.director.completed_tasks =
                           director_completed_append(@, claimed.id),
                       !.director.task_queue =
                           remove_from_queue(
                               [queue EXCEPT ![k] = completed], claimed.id),
                       !.implementation_progress = add_progress(@)],
                    Some(made.tools), Some(claimed.id), "completed",
                    Some(completed))


-----------------------------------------------------------------------------
(* EventEngineerAgent.process *)

\* if t.type in [...] and t.status == "pending", then the dependency check
event_engineer_wants(s, t) ==
    /\ t.type \in EventTypes
    /\ t.status = "pending"
    /\ dependencies_met(t, s.director.completed_tasks)

EventEngineerProcess(s, tl, write_ok) ==
    LET s1 == IF s.event_engineer = None
              THEN [s EXCEPT !.event_engineer = Some(EventEngineerAgentState)]
              ELSE s
        queue == s1.director.task_queue
        k == first_index(
            {n \in 1..Len(queue) :
                event_engineer_wants(s1, queue[n])})
    IN
    IF k = 0 THEN Outcome(s1, tl, None, "no_task", None)
    ELSE
    LET \* claim; the cutscene looked up or defaulted next only feeds the
        \* prompt (event_details) and is not stored in game_data
        claimed == claim(queue[k], "event_engineer")
        s2 == [s1 EXCEPT
                 !.director.task_queue[k] = claimed,
                 !.event_engineer =
                     Some([Get(@) EXCEPT !.current_task = Some(claimed)])]
    IN
    IF tl = None \/ claimed.type # "cutscene_creation"
    THEN \* if self.tools and task.type == "cutscene_creation" is false
         Outcome(s2, tl, Some(claimed.id), "untouched", Some(claimed))
    ELSE
    LET locations == s2.game_data.locations
        \* locations[0].id if locations else 1
        map_id == IF locations # <<>> THEN locations[1].id ELSE Some(1)
        made == create_event(Get(tl), map_id, write_ok)
    IN
    IF made.raised
    THEN LET failed == mark_failed(claimed)
         IN Outcome([s2 EXCEPT
                       !.director.task_queue[k] = failed,
                       !.event_engineer =
                           Some([Get(@) EXCEPT !.current_task = Some(failed)])],
                    Some(made.tools), Some(claimed.id), "failed", Some(failed))
    ELSE
         LET completed == [claimed EXCEPT
                             !.status = "completed",
                             !.result = Some([event_id |-> made.id,
                                              map_id |-> Get(map_id)])]
         IN Outcome([s2 EXCEPT
                       !.event_engineer =
                           Some([Get(@) EXCEPT
                                   !.events_created =
                                       Append(@, [id |-> made.id,
                                                  map_id |-> Get(map_id)]),
                                   !.current_task = None,
                                   !.completed_tasks = Append(@, claimed.id)]),
                       !.director.completed_tasks =
                           director_completed_append(@, claimed.id),
                       !.director.task_queue =
                           remove_from_queue(
                               [queue EXCEPT ![k] = completed], claimed.id),
                       !.implementation_progress = add_progress(@)],
                    Some(made.tools), Some(claimed.id), "completed",
                    Some(completed))

-----------------------------------------------------------------------------
(* CombatSystemAgent.process, AssetManagerAgent.process,                   *)
(* TestingAgent.process: they create their agent state and return          *)

CombatSystemProcess(s, tl) ==
    Outcome(IF s.combat_system = None
            THEN [s EXCEPT !.combat_system = Some(AgentState)] ELSE s,
            tl, None, "no_task", None)

AssetManagerProcess(s, tl) ==
    Outcome(IF s.asset_manager = None
            THEN [s EXCEPT !.asset_manager = Some(AgentState)] ELSE s,
            tl, None, "no_task", None)

TestingProcess(s, tl) ==
    Outcome(IF s.tester = None
            THEN [s EXCEPT !.tester = Some(AgentState)] ELSE s,
            tl, None, "no_task", None)

-----------------------------------------------------------------------------
(* build_agent_workflow: route_implementation *)

\* the body of the loop over the queue for one task: the role it makes
\* the router return, or None when the loop goes on to the next task
task_route(s, task) ==
    IF task.status # "pending" THEN None
    ELSE IF startswith_map(task.type) THEN Some("world_builder")
    ELSE IF task.type \in EventTypes
         THEN IF dependencies_met(task, s.director.completed_tasks)
              THEN Some("event_engineer") ELSE None
    ELSE IF task.type \in CombatTypes THEN Some("combat_system")
    ELSE IF task.type \in AssetTypes THEN Some("asset_manager")
    ELSE None

\* the for loop over the queue and the two returns that follow it
scan_task_queue(s) ==
    LET queue == s.director.task_queue
        k == first_index(
            {n \in 1..Len(queue) :
                task_route(s, queue[n]) # None})
    IN IF k # 0 THEN Get(task_route(s, queue[k]))
       ELSE IF s.current_stage = "testing" THEN "tester"
       ELSE "director"

\* the router that forgets to look at the stage first
route_planning_unchecked(s) == scan_task_queue(s)

route_implementation(s) ==
    IF s.current_stage = "planning" THEN "director"
    ELSE scan_task_queue(s)


-----------------------------------------------------------------------------
(* The runs explored: run_demo's loop started on a fresh state whose queue *)
(* holds up to MaxQueue of the tasks below (distinct ids), in any stage,   *)
(* with progress 0.0 or 1.0, with or without a project.                    *)

TaskCatalogue ==
    { world_builder_task,
      event_engineer_task,
      AgentTask("create_dark_forest", "map_creation", 2,
                {"create_starting_town"}),
      AgentTask("create_hidden_cave", "map_creation", 1,
                {"create_lost_city"}),
      AgentTask("redraw_town_map", "map_editing", 3, {}),
      AgentTask("create_shop_event", "event_creation", 2, {}),
      AgentTask("create_elder_dialogue", "dialogue_creation", 3,
                {"create_starting_town"}),
      AgentTask("create_fire_skill", "skill_creation", 2, {}),
      AgentTask("create_slime_enemy", "enemy_creation", 1, {}),
      AgentTask("create_slime_troop", "troop_creation", 2,
                {"create_slime_enemy"}),
      AgentTask("organize_assets", "asset_management", 3, {}),
      AgentTask("setup_hero", "character_setup", 1, {}),
      AgentTask("create_ending_cutscene", "cutscene_creation", 3,
                {"create_starting_town", "create_intro_cutscene"}),
      AgentTask("create_dream_cutscene", "cutscene_creation", 2,
                {"create_dream_cutscene"}),
      AgentTask("create_title_cutscene", "cutscene_creation", 1, {}) }

InitQueues ==
    { q \in UNION { [1..n -> TaskCatalogue] : n \in 0..MaxQueue } :
        \A a, b \in 1..Len(q) : a # b => q[a].id # q[b].id }

\* no project_path: the agents have no tools; otherwise the store as
\* _load_data reads it: no MapInfos.json (empty dict), a dict with map 1,
\* or a JSON array
InitTools ==
    { None,
      Some(RPGMakerTools(TRUE, {}, <<>>)),
      Some(RPGMakerTools(TRUE, {1}, <<{}>>)),
      Some(RPGMakerTools(FALSE, {}, <<{}>>)) }

\* game_data.locations before the run: none, as initialize_game_state
\* leaves them, or the starting town as the game design describes it
InitLocations ==
    { <<>>, <<GameLocation("Starting Town", 30, 20, 2)>> }

Init ==
    /\ \E queue \in InitQueues, stage \in Stages, progress \in {0, 10},
          locations \in InitLocations :
          /\ locations # <<>> => stage = "implementation" /\ progress = 0
          /\ state = [GameImplementationState(queue, stage, progress)
                         EXCEPT !.game_data.locations = locations]
    /\ tools \in InitTools
    /\ i = 0
    /\ pc = "loop"
    /\ selections = <<>>
    /\ last = [role |-> "none", claimed |-> None, result |-> "none",
               task |-> None, next |-> "director"]
    /\ initial = state
    /\ switch_calls = <<>>

-----------------------------------------------------------------------------
(* run_demo: for i in range(5): state = workflow(state); break when the    *)
(* queue is empty.  One iteration is one routing decision and the process  *)
(* of the node it selects; every worker node leads back to the router.     *)

\* faulty variant of in_range: the loop runs once more than the budget
in_range_inclusive(n) == n <= max_steps

\* faulty variant of in_range: a budget of two iterations
in_range_two(n) == n < 2

\* for i in range(5)
in_range(n) == n < max_steps

\* faulty variant of queue_empty: the loop is left as soon as no task is
\* pending
queue_without_pending(s) ==
    \A t \in Range(s.director.task_queue) : t.status # "pending"

\* faulty variant of queue_empty: the loop never looks at the queue
queue_never_checked(s) == FALSE

\* if not state.director.task_queue: break
queue_empty(s) == s.director.task_queue = <<>>

\* add_conditional_edges("director", route_implementation, {...}): the
\* nodes the router can lead to
conditional_edges ==
    {"director", "world_builder", "event_engineer", "combat_system",
     "asset_manager", "tester"}

\* faulty variant of edge: the world builder hands over to the event
\* engineer directly
edge_to_peer(node) ==
    IF node = "world_builder" THEN "event_engineer" ELSE "director"

\* add_edge(worker, "director"): the node control is at after the process
\* of a node; at "director" the router decides which process runs next
edge(node) == "director"

Workflow(role, out) ==
    /\ pc = "loop"
    /\ in_range(i)
    /\ role \in conditional_edges
    /\ role = IF last.next = "director" THEN route_implementation(state)
              ELSE last.next
    /\ state' = out.state
    /\ tools' = out.tools
    /\ last' = [role |-> role, claimed |-> out.claimed,
                result |-> out.result, task |-> out.task,
                next |-> edge(role)]
    /\ i' = i + 1
    /\ selections' = Append(selections, role)
    /\ pc' = IF queue_empty(out.state) \/ ~in_range(i + 1)
             THEN "done" ELSE "loop"
    /\ UNCHANGED <<initial, switch_calls>>

Director == Workflow("director", DirectorProcess(state, tools))

WorldBuilder ==
    \E write_ok \in BOOLEAN :
        Workflow("world_builder", WorldBuilderProcess(state, tools, write_ok))

EventEngineer ==
    \E write_ok \in BOOLEAN :
        Workflow("event_engineer",
                 EventEngineerProcess(state, tools, write_ok))

CombatSystem == Workflow("combat_system", CombatSystemProcess(state, tools))

AssetManager == Workflow("asset_manager", AssetManagerProcess(state, tools))

Tester == Workflow("tester", TestingProcess(state, tools))

Next ==
    \/ Director
    \/ WorldBuilder
    \/ EventEngineer
    \/ CombatSystem
    \/ AssetManager
    \/ Tester

Spec == Init /\ [][Next]_vars


-----------------------------------------------------------------------------
(* Vocabulary of the properties *)

WorkerRoles ==
    {"world_builder", "event_engineer", "combat_system", "asset_manager",
     "tester"}

\* the Optional agent state of a worker role
role_state(s, role) ==
    CASE role = "world_builder"  -> s.world_builder
      [] role = "event_engineer" -> s.event_engineer
      [] role = "combat_system"  -> s.combat_system
      [] role = "asset_manager"  -> s.asset_manager
      [] role = "tester"         -> s.tester

queue_ids(s) == {t.id : t \in Range(s.director.task_queue)}

\* the tasks of the queue that carry the id
tasks_with_id(s, id) == {t \in Range(s.director.task_queue) : t.id = id}

\* in the step state -> state', the task with this id is taken out of
\* pending: it is still queued with another status, or it has left the
\* queue into director.completed_tasks
leaves_pending(id) ==
    /\ \E t \in tasks_with_id(state, id) : t.status = "pending"
    /\ \/ \E u \in tasks_with_id(state', id) : u.status # "pending"
       \/ /\ id \notin queue_ids(state')
          /\ id \in Range(state'.director.completed_tasks)
          /\ id \notin Range(state.director.completed_tasks)

-----------------------------------------------------------------------------
(* C1.  Dependency ordering: no task of the queue, whatever its kind,      *)
(* leaves pending in a step that starts while one of its dependencies is   *)
(* not in director.completed_tasks.  WorldBuilderAgent.process claims a    *)
(* map_creation task without looking at its dependencies, so this fails.   *)
C1_DependencyOrdering ==
    [][\A t \in Range(state.director.task_queue) :
          leaves_pending(t.id) =>
              dependencies_met(t, state.director.completed_tasks)]_vars

(* C2.  No double-claim: the status or the assignee of a queued task       *)
(* changes only in a step that finds it pending and unassigned, and that   *)
(* step leaves it non-pending and assigned to the role dispatched in the   *)
(* step; a task that leaves the queue was claimed by that role in the      *)
(* same way.  Hence assigned_to, once set, names the same role for ever.   *)
C2_NoDoubleClaim ==
    [][\A t \in Range(state.director.task_queue) :
          /\ \A u \in tasks_with_id(state', t.id) :
                (u.status # t.status \/ u.assigned_to # t.assigned_to) =>
                    /\ t.status = "pending"
                    /\ t.assigned_to = None
                    /\ u.status # "pending"
                    /\ u.assigned_to = Some(last'.role)
          /\ (t.id \notin queue_ids(state') /\ last'.role # "director") =>
                    /\ t.status = "pending"
                    /\ t.assigned_to = None
                    /\ last'.task # None
                    /\ Get(last'.task).id = t.id
                    /\ Get(last'.task).assigned_to = Some(last'.role)]_vars

\* two roles have each claimed a task of the same queue
C2_Witness ==
    /\ last.claimed # None
    /\ \E t \in Range(state.director.task_queue) :
          /\ t.assigned_to # None
          /\ t.assigned_to # Some(last.role)
          /\ t.id # Get(last.claimed)

(* C3.  Termination: a run never dispatches more than max_steps roles and *)
(* has left the loop once max_steps roles were dispatched; while it is in  *)
(* the loop the budget is not used up and the router names a node of the   *)
(* workflow, so the next dispatch can be made: the run is never stuck,     *)
(* also with a task that depends on itself or on an id that never exists.  *)
C3_Termination ==
    /\ i <= max_steps
    /\ Len(selections) = i
    /\ i = max_steps => pc = "done"
    /\ pc = "loop" =>
          /\ in_range(i)
          /\ route_implementation(state) \in {"director"} \cup WorkerRoles

\* the budget ran out on a queue that still holds a pending task whose
\* dependency can never be met
C3_Witness ==
    /\ pc = "done"
    /\ i = max_steps
    /\ \E t \in Range(state.director.task_queue) :
          /\ t.status = "pending"
          /\ \/ t.id \in t.dependencies
             \/ "create_lost_city" \in t.dependencies

(* C4.  Monotonic progress: no step lowers implementation_progress.        *)
C4_MonotonicProgress ==
    [][state'.implementation_progress >= state.implementation_progress]_vars

\* a run in which progress has grown, then a step failed
C4_Witness ==
    /\ state.implementation_progress > initial.implementation_progress
    /\ last.result = "failed"

(* C5.  Progress bound: progress stays within [0.0, 1.0] (0..10 tenths).   *)
(* The code adds the increment without clamping, so this fails.            *)
C5_ProgressBound ==
    state.implementation_progress \in 0..10


(* C7.  Scenario A generalized (success commit), in the stages in which    *)
(* the router scans the queue: when the first pending task of the queue is *)
(* a map_creation task without dependencies, the role dispatched is        *)
(* world_builder; and when create_map succeeds (tools are set and          *)
(* MapInfos is a dict), that one step removes the task from the queue,     *)
(* appends its id to world_builder.completed_tasks and to                  *)
(* director.completed_tasks, leaves the task completed with a result and   *)
(* raises progress by exactly the increment.                               *)
C7_SuccessCommit ==
    [][LET queue == state.director.task_queue
           k == first_index(
               {n \in 1..Len(queue) :
                   queue[n].status = "pending"})
           before == IF state.world_builder = None THEN <<>>
                     ELSE Get(state.world_builder).completed_tasks
       IN (/\ state.current_stage # "planning"
           /\ k # 0
           /\ queue[k].type = "map_creation"
           /\ queue[k].dependencies = {}) =>
          /\ last'.role = "world_builder"
          /\ (tools # None /\ Get(tools).map_infos_is_dict) =>
                /\ queue[k].id \notin queue_ids(state')
                /\ Get(state'.world_builder).completed_tasks =
                       Append(before, queue[k].id)
                /\ state'.director.completed_tasks =
                       Append(state.director.completed_tasks, queue[k].id)
                /\ last'.task # None
                /\ Get(last'.task).id = queue[k].id
                /\ Get(last'.task).status = "completed"
                /\ Get(last'.task).result # None
                /\ state'.implementation_progress =
                       state.implementation_progress + progress_increment]_vars

\* a map_creation task without dependencies has just been completed
C7_Witness ==
    /\ last.role = "world_builder"
    /\ last.result = "completed"
    /\ Get(last.task).dependencies = {}
    /\ Get(last.task).id \in Range(state.director.completed_tasks)

(* C8.  Scenario B: in a run started in the implementation stage on the    *)
(* queue [X (map_creation, no dependencies), Y (cutscene_creation,         *)
(* dependencies = [X.id])], the first role selected is world_builder, and  *)
(* as long as X.id is not in director.completed_tasks the router has never *)
(* selected event_engineer and Y is still pending in the queue.            *)
ScenarioB ==
    LET queue == initial.director.task_queue
    IN /\ initial.current_stage = "implementation"
       /\ Len(queue) = 2
       /\ queue[1].type = "map_creation"
       /\ queue[1].dependencies = {}
       /\ queue[2].type = "cutscene_creation"
       /\ queue[2].dependencies = {queue[1].id}

C8_ScenarioB ==
    ScenarioB =>
       LET X == initial.director.task_queue[1]
           Y == initial.director.task_queue[2]
       IN /\ selections # <<>> => selections[1] = "world_builder"
          /\ X.id \notin Range(state.director.completed_tasks) =>
                /\ "event_engineer" \notin Range(selections)
                /\ \E t \in Range(state.director.task_queue) :
                      t.id = Y.id /\ t.status = "pending"

\* scenario B in which event_engineer was selected in the end
C8_Witness ==
    /\ ScenarioB
    /\ last.role = "event_engineer"
    /\ last.claimed # None

(* C9.  Scenario C (failure commit): when the creation call of a worker    *)
(* step raises, the step leaves the claimed task in the queue with status  *)
(* failed, its id in neither the role's nor the director's                 *)
(* completed_tasks, and progress as it was before the step.                *)
C9_FailureCommit ==
    [][last'.result = "failed" =>
          /\ last'.claimed # None
          /\ \E t \in Range(state.director.task_queue) :
                t.id = Get(last'.claimed) /\ t.status = "pending"
          /\ \E u \in Range(state'.director.task_queue) :
                u.id = Get(last'.claimed)
          /\ \A u \in tasks_with_id(state', Get(last'.claimed)) :
                u.status = "failed"
          /\ Len(state'.director.task_queue) = Len(state.director.task_queue)
          /\ Get(last'.claimed) \notin Range(state'.director.completed_tasks)
          /\ Get(last'.claimed) \notin
                Range(Get(role_state(state', last'.role)).completed_tasks)
          /\ state'.implementation_progress =
                state.implementation_progress]_vars

\* a creation call has just raised after some task was completed
C9_Witness ==
    /\ last.result = "failed"
    /\ state.director.completed_tasks # <<>>

(* C10.  current_task is cleared on both outcomes: after a worker step     *)
(* whose task ended completed or failed the role's current_task is None,   *)
(* and at every step boundary a role's current_task is None or a task in   *)
(* progress assigned to that role.  The except branches leave current_task *)
(* on the failed task, so this fails.                                      *)
C10_CurrentTaskCleared ==
    /\ last.result \in {"completed", "failed"} =>
          Get(role_state(state, last.role)).current_task = None
    /\ \A role \in WorkerRoles :
          LET rs == role_state(state, role)
          IN (rs # None /\ Get(rs).current_task # None) =>
                /\ Get(Get(rs).current_task).status = "in_progress"
                /\ Get(Get(rs).current_task).assigned_to = Some(role)

(* C11.  Scenario D: in every state whose stage is planning the router     *)
(* returns the director, whatever the queue holds; the step taken from a   *)
(* planning state is the director's and ends in stage implementation; and  *)
(* no step from another stage ends in planning, so the stage leaves        *)
(* planning once and never comes back.                                     *)
C11_PlanningOnce ==
    [][/\ state.current_stage = "planning" =>
             /\ route_implementation(state) = "director"
             /\ last'.role = "director"
             /\ state'.current_stage = "implementation"
       /\ state.current_stage # "planning" =>
             state'.current_stage # "planning"]_vars

\* a run that started in planning with tasks queued has left planning and
\* gone on for another step
C11_Witness ==
    /\ initial.current_stage = "planning"
    /\ initial.director.task_queue # <<>>
    /\ state.current_stage = "implementation"
    /\ i >= 2

\* the status changes the lifecycle allows between two step boundaries:
\* none, pending -> in_progress, in_progress -> completed or failed, and
\* pending -> in_progress -> completed or failed within one step
lifecycle_allows(before, after) ==
    \/ after = before
    \/ before = "pending" /\ after \in {"in_progress", "completed", "failed"}
    \/ before = "in_progress" /\ after \in {"completed", "failed"}

(* C12.  Task lifecycle: in a step that does not plan the queue anew, a    *)
(* queued task keeps its status or moves along pending -> in_progress ->   *)
(* completed | failed; a task leaves the queue only as the completed task  *)
(* of the step; a failed task stays in the queue as it is; and a task is   *)
(* pending exactly as long as no role has claimed it, so that nothing      *)
(* reaches completed or failed except through a claim and nothing goes     *)
(* back to pending.                                                        *)
C12_TaskLifecycle ==
    [][state.current_stage # "planning" =>
          /\ \A t \in Range(state.director.task_queue) :
                /\ \A u \in tasks_with_id(state', t.id) :
                      lifecycle_allows(t.status, u.status)
                /\ t.id \notin queue_ids(state') =>
                      /\ t.status \in {"pending", "in_progress"}
                      /\ last'.task # None
                      /\ Get(last'.task).id = t.id
                      /\ Get(last'.task).status = "completed"
                /\ t.status \in {"completed", "failed"} =>
                      t \in Range(state'.director.task_queue)
          /\ \A u \in Range(state'.director.task_queue) :
                /\ u.id \in queue_ids(state)
                /\ u.status = "pending" <=> u.assigned_to = None
          /\ last'.task # None =>
                Get(last'.task).assigned_to = Some(last'.role)]_vars

\* a task failed in an earlier step and is still there, failed, after a
\* later worker step
C12_Witness ==
    /\ last.role \in WorkerRoles
    /\ last.result \in {"completed", "failed", "untouched"}
    /\ \E t \in Range(state.director.task_queue) :
          /\ t.status = "failed"
          /\ last.claimed # Some(t.id)

\* the worker role the kind table of the specification gives a task kind
kind_role(type) ==
    IF type = "map_creation" THEN Some("world_builder")
    ELSE IF type \in {"event_creation", "cutscene_creation",
                      "dialogue_creation"} THEN Some("event_engineer")
    ELSE IF type \in {"skill_creation", "enemy_creation", "troop_creation"}
         THEN Some("combat_system")
    ELSE IF type = "asset_management" THEN Some("asset_manager")
    ELSE None

\* a task the reference router may select: pending, of a kind that has a
\* worker role, with every dependency in director.completed_tasks
eligible(s, task) ==
    /\ task.status = "pending"
    /\ kind_role(task.type) # None
    /\ task.dependencies \subseteq Range(s.director.completed_tasks)

\* the reference router for a stage other than planning
reference_router(s) ==
    LET queue == s.director.task_queue
        k == first_index({n \in 1..Len(queue) : eligible(s, queue[n])})
    IN IF k # 0 THEN Get(kind_role(queue[k].type))
       ELSE IF s.current_stage = "testing" THEN "tester"
       ELSE "director"

(* C13.  Router equals the reference algorithm: outside planning the       *)
(* router returns the role of the first queued task that is pending, of a  *)
(* kind with a worker role and with all dependencies completed, and the    *)
(* tester (stage testing) or the director when there is none.  The code    *)
(* tests dependencies for event kinds only and matches map kinds by        *)
(* prefix, so this fails.                                                  *)
C13_RouterIsReference ==
    state.current_stage # "planning" =>
        route_implementation(state) = reference_router(state)

\* a pending task some dependency of which is not completed
blocked(s, task) ==
    /\ task.status = "pending"
    /\ ~(task.dependencies \subseteq Range(s.director.completed_tasks))

(* C14.  A blocked task does not block the scan: outside planning, when    *)
(* the first selectable task of the queue (pending, of a kind with a       *)
(* worker role, dependencies completed) comes after a blocked pending      *)
(* task of another role or of no role, the router returns the role of      *)
(* that selectable task, whatever the kind of the blocked one.  The code   *)
(* returns the role of a blocked map, combat or asset task, so this fails. *)
C14_BlockedTaskSkipped ==
    state.current_stage # "planning" =>
        LET queue == state.director.task_queue
            k == first_index({n \in 1..Len(queue) :
                                 eligible(state, queue[n])})
        IN \A b \in 1..(k - 1) :
              (/\ blocked(state, queue[b])
               /\ kind_role(queue[b].type) # kind_role(queue[k].type)) =>
                  route_implementation(state) =
                      Get(kind_role(queue[k].type))

(* C15.  Tool errors never escape the worker: a step in which the creation *)
(* call raised ends with a state, the claimed task failed in a queue that  *)
(* is otherwise as it was, and with budget left the engine is back at the  *)
(* routing decision; the loop is over only when the queue is empty or the  *)
(* budget is used up.                                                      *)
C15_ToolErrorsContained ==
    /\ last.result = "failed" =>
          /\ last.task # None
          /\ Get(last.task) \in Range(state.director.task_queue)
          /\ Get(last.task).status = "failed"
          /\ i < max_steps =>
                /\ pc = "loop"
                /\ route_implementation(state) \in
                      {"director"} \cup WorkerRoles
    /\ pc = "done" =>
          state.director.task_queue = <<>> \/ i = max_steps

\* a creation call has just raised and the router selects a worker for the
\* next step
C15_Witness ==
    /\ last.result = "failed"
    /\ pc = "loop"
    /\ route_implementation(state) \in WorkerRoles

\* a task of the initial queue that depends on itself or on an id that is
\* neither queued nor completed, in a run that does not plan the queue anew
unsatisfiable(task) ==
    /\ initial.current_stage # "planning"
    /\ \/ task.id \in task.dependencies
       \/ \E d \in task.dependencies :
             /\ d \notin queue_ids(initial)
             /\ d \notin Range(initial.director.completed_tasks)

(* C16.  Unsatisfiable dependency tolerated: a task that depends on itself *)
(* or on an id that is never there is in the queue in every reachable      *)
(* state exactly as it started, pending and unclaimed, whatever its kind,  *)
(* and the engine is at the routing decision or has ended its loop.  The   *)
(* world builder claims a map_creation task without reading its            *)
(* dependencies, so this fails.                                            *)
C16_UnsatisfiableStaysPending ==
    /\ pc \in {"loop", "done"}
    /\ \A t \in Range(initial.director.task_queue) :
          unsatisfiable(t) =>
              /\ t.status = "pending"
              /\ t \in Range(state.director.task_queue)

(* C17.  Engine stops on empty queue: a role is dispatched only at the     *)
(* routing decision and, after the first step, only while the queue is not *)
(* empty; a step ends the loop exactly when it leaves the queue empty or   *)
(* uses up the budget; and while the queue is not empty and budget is left *)
(* the engine is at the routing decision with a role to dispatch.          *)
C17_StopsOnEmptyQueue ==
    /\ [](state.director.task_queue # <<>> /\ i < max_steps =>
             /\ pc = "loop"
             /\ route_implementation(state) \in
                   {"director"} \cup WorkerRoles)
    /\ [][/\ pc = "loop"
          /\ state.director.task_queue = <<>> => i = 0
          /\ pc' = "done" <=>
                (state'.director.task_queue = <<>> \/ i' = max_steps)]_vars

\* the loop has ended before the budget because the last task of the queue
\* was completed
C17_Witness ==
    /\ pc = "done"
    /\ state.director.task_queue = <<>>
    /\ i \in 1..(max_steps - 1)
    /\ last.result = "completed"

\* the record a completed task reports is in its family on disk: the map
\* file of the reported map id exists and, for an event, holds the event id
stored(tl, result) ==
    /\ result.map_id \in DOMAIN tl.map_files
    /\ "event_id" \in DOMAIN result =>
          result.event_id \in tl.map_files[result.map_id]

(* C18.  Record-store error reporting: a creation call that could not      *)
(* write its record does not return an id as if the record were stored, so *)
(* a worker step ends with its task completed only when the record the     *)
(* task reports is on disk, and with the task failed otherwise.  _save_json *)
(* swallows the write error and create_map / create_event return the id    *)
(* all the same, so this fails.                                            *)
C18_WriteErrorReported ==
    last.result = "completed" =>
        stored(Get(tools), Get(Get(last.task).result))

(* C19.  Monotonic id allocation: from every store the run reaches, a      *)
(* creation call that returns gives max(ids of the family) + 1, or 1 for   *)
(* an empty family, an id the family did not hold before the call, and the *)
(* next creation call in the same family returns a greater id, for maps    *)
(* and for the events of one map alike.  create_event reads the ids from   *)
(* the map file, and a first call whose write failed unnoticed leaves the  *)
(* file as it was, so the second call returns the same id: this fails.     *)
C19_MonotonicIds ==
    tools # None =>
        \A w1, w2 \in BOOLEAN :
            /\ LET first == create_map(Get(tools), "Town", 20, 15, 1, w1)
                   second == create_map(first.tools, "Town", 20, 15, 1, w2)
               IN ~first.raised =>
                     /\ first.id = next_id(Get(tools).map_infos)
                     /\ first.id \notin Get(tools).map_infos
                     /\ ~second.raised /\ second.id > first.id
            /\ \A m \in DOMAIN Get(tools).map_files :
                  LET first == create_event(Get(tools), Some(m), w1)
                      second == create_event(first.tools, Some(m), w2)
                  IN ~first.raised =>
                        /\ first.id = next_id(Get(tools).map_files[m])
                        /\ first.id \notin Get(tools).map_files[m]
                        /\ ~second.raised /\ second.id > first.id

(* C20.  Every claim resolved within its step: at every step boundary no   *)
(* task of the queue is in_progress, and a step that claimed a task ended  *)
(* with it completed or failed, for every kind the role accepts and with   *)
(* or without a tool facade.  The workers complete or fail a task only     *)
(* under "if self.tools", and the event engineer only for                  *)
(* cutscene_creation, so this fails.                                       *)
C20_ClaimResolvedInStep ==
    /\ \A t \in Range(state.director.task_queue) : t.status # "in_progress"
    /\ last.claimed # None => last.result \in {"completed", "failed"}

(* C21.  The router never selects a worker in vain: the step of a worker   *)
(* the router selected because of a pending task (any role but the tester, *)
(* which is selected by stage) claims a task, for every kind the router    *)
(* recognizes.  The combat system and asset manager processes claim        *)
(* nothing, and the world builder claims nothing for a map kind other than *)
(* map_creation, so this fails.                                            *)
C21_NoDispatchInVain ==
    last.role \in WorkerRoles \ {"tester"} =>
        /\ last.claimed # None
        /\ last.result # "no_task"

\* the state with the priority of the n-th queued task replaced by f[n]
reprioritized(s, f) ==
    [s EXCEPT !.director.task_queue =
        [n \in 1..Len(@) |-> [@[n] EXCEPT !.priority = f[n]]]]

\* the process of the node the router selects
process_of(role, s, tl, write_ok) ==
    CASE role = "director"       -> DirectorProcess(s, tl)
      [] role = "world_builder"  -> WorldBuilderProcess(s, tl, write_ok)
      [] role = "event_engineer" -> EventEngineerProcess(s, tl, write_ok)
      [] role = "combat_system"  -> CombatSystemProcess(s, tl)
      [] role = "asset_manager"  -> AssetManagerProcess(s, tl)
      [] role = "tester"         -> TestingProcess(s, tl)

(* C22.  Priority is never consulted: at every routing decision, whatever  *)
(* priorities are given to the queued tasks instead of their own, the      *)
(* router returns the same role and the process of that role claims the    *)
(* same task with the same outcome; and the task claimed is the earliest   *)
(* of the queue among the pending tasks of the role's kinds whose          *)
(* dependencies are completed, whatever its priority.                      *)
C22_PriorityNotConsulted ==
    pc = "loop" =>
        LET queue == state.director.task_queue
            role == route_implementation(state)
            out == process_of(role, state, tools, TRUE)
        IN /\ \A f \in [1..Len(queue) -> {t.priority : t \in TaskCatalogue}] :
                 LET other == reprioritized(state, f)
                     out2 == process_of(role, other, tools, TRUE)
                 IN /\ route_implementation(other) = role
                    /\ out2.claimed = out.claimed
                    /\ out2.result = out.result
           /\ \A k \in 1..Len(queue) :
                 out.claimed = Some(queue[k].id) =>
                     \A j \in 1..(k - 1) :
                         ~(/\ eligible(state, queue[j])
                           /\ kind_role(queue[j].type) = Some(role))

\* the first step claimed a task although a later task of the same kind
\* carried the more urgent priority
C22_Witness ==
    /\ i = 1
    /\ last.claimed # None
    /\ \E a, b \in 1..Len(initial.director.task_queue) :
          LET queue == initial.director.task_queue
          IN /\ a < b
             /\ queue[a].id = Get(last.claimed)
             /\ queue[b].type = queue[a].type
             /\ queue[b].priority < queue[a].priority

(* C23.  Star topology: the edge out of every worker node leads to the     *)
(* director node, so after a worker step control is at the routing         *)
(* decision and not at another worker; and the role of every step, a       *)
(* worker's included, is the one the router returns for the state the      *)
(* step before left.                                                       *)
C23_StarTopology ==
    [][/\ last.next = "director"
       /\ last'.role = route_implementation(state)
       /\ last'.role \in WorkerRoles => last'.next = "director"]_vars

\* two different workers ran in consecutive steps
C23_Witness ==
    /\ Len(selections) >= 2
    /\ selections[Len(selections)] \in WorkerRoles
    /\ selections[Len(selections) - 1] \in WorkerRoles
    /\ selections[Len(selections)] # selections[Len(selections) - 1]
    /\ last.next = "director"

\* the state but for the agent state of the role
without_role(s, role) ==
    CASE role = "world_builder"  -> [s EXCEPT !.world_builder = None]
      [] role = "event_engineer" -> [s EXCEPT !.event_engineer = None]
      [] role = "combat_system"  -> [s EXCEPT !.combat_system = None]
      [] role = "asset_manager"  -> [s EXCEPT !.asset_manager = None]
      [] role = "tester"         -> [s EXCEPT !.tester = None]

(* C24.  Worker no-op: a step that dispatches a worker while the queue     *)
(* holds no pending task of the role's kinds with all dependencies         *)
(* completed leaves the queue, every completed_tasks list, progress, stage *)
(* and game_data as they were; at most the agent state of the role is      *)
(* created, with nothing completed and no current task.  The world builder *)
(* claims a pending map_creation task whose dependencies are not           *)
(* completed, so this fails.                                               *)
C24_WorkerNoOp ==
    [][(/\ last'.role \in WorkerRoles
        /\ \A t \in Range(state.director.task_queue) :
              ~(eligible(state, t) /\ kind_role(t.type) = Some(last'.role)))
       => /\ without_role(state', last'.role) =
                without_role(state, last'.role)
          /\ \/ role_state(state', last'.role) =
                   role_state(state, last'.role)
             \/ /\ role_state(state, last'.role) = None
                /\ Get(role_state(state', last'.role)).completed_tasks = <<>>
                /\ Get(role_state(state', last'.role)).current_task = None
      ]_vars

(* C25.  The coordinator never does a worker's job: a director step leaves *)
(* game_data, progress, every completed_tasks list and every worker's      *)
(* agent state as they were, and each task of the queue after the step is  *)
(* a task of the queue before it, unchanged, or a new task that is         *)
(* pending, unassigned and without result.                                 *)
C25_DirectorOnlyPlans ==
    [][last'.role = "director" =>
          /\ state'.game_data = state.game_data
          /\ state'.implementation_progress = state.implementation_progress
          /\ state'.director.completed_tasks =
                state.director.completed_tasks
          /\ state'.director.current_task = state.director.current_task
          /\ \A role \in WorkerRoles :
                role_state(state', role) = role_state(state, role)
          /\ \A u \in Range(state'.director.task_queue) :
                \/ u \in Range(state.director.task_queue)
                \/ /\ u.status = "pending"
                   /\ u.assigned_to = None
                   /\ u.result = None]_vars

\* the director ran over a queue that holds a task some worker has claimed
C25_Witness ==
    /\ last.role = "director"
    /\ last.result = "coordinated"
    /\ \E t \in Range(state.director.task_queue) : t.status # "pending"

\* a is b with some elements left out
RECURSIVE is_subsequence(_, _)
is_subsequence(a, b) ==
    IF a = <<>> THEN TRUE
    ELSE IF b = <<>> THEN FALSE
    ELSE IF Head(a) = Head(b) THEN is_subsequence(Tail(a), Tail(b))
    ELSE is_subsequence(a, Tail(b))

\* the completed_tasks list of a worker role, empty while the role has no
\* agent state
role_completed(s, role) ==
    IF role_state(s, role) = None THEN <<>>
    ELSE Get(role_state(s, role)).completed_tasks

(* C26.  The coordinator's completed set mirrors the workers': in every    *)
(* reachable state the ids of director.completed_tasks are exactly the ids *)
(* of the workers' completed_tasks lists taken together, and each worker's *)
(* list is a subsequence of the director's.                                *)
C26_CompletedMirrored ==
    /\ Range(state.director.completed_tasks) =
          UNION {Range(role_completed(state, role)) : role \in WorkerRoles}
    /\ \A role \in WorkerRoles :
          is_subsequence(role_completed(state, role),
                         state.director.completed_tasks)

\* two workers have each completed a task
C26_Witness ==
    /\ role_completed(state, "world_builder") # <<>>
    /\ role_completed(state, "event_engineer") # <<>>
    /\ Len(state.director.completed_tasks) = 2

\* a is the beginning of b
is_prefix(a, b) ==
    /\ Len(a) <= Len(b)
    /\ \A n \in 1..Len(a) : a[n] = b[n]

(* C27.  completed_tasks is append-only and in completion order: across    *)
(* every step the director's list and each role's list before the step is  *)
(* a prefix of the list after it, and a list grows by exactly the id of    *)
(* the task completed in that step, put at its end, and only for the       *)
(* director and the role that completed it.                                *)
C27_CompletedAppendOnly ==
    [][/\ is_prefix(state.director.completed_tasks,
                    state'.director.completed_tasks)
       /\ \A role \in WorkerRoles :
             /\ is_prefix(role_completed(state, role),
                          role_completed(state', role))
             /\ role_completed(state', role) # role_completed(state, role)
                   => role = last'.role
       /\ IF last'.result = "completed"
          THEN /\ state'.director.completed_tasks =
                     Append(state.director.completed_tasks,
                            Get(last'.claimed))
               /\ role_completed(state', last'.role) =
                     Append(role_completed(state, last'.role),
                            Get(last'.claimed))
          ELSE state'.director.completed_tasks =
                   state.director.completed_tasks]_vars

\* a second task has been completed after a first one
C27_Witness ==
    /\ last.result = "completed"
    /\ Len(state.director.completed_tasks) >= 2
    /\ state.director.completed_tasks[Len(state.director.completed_tasks)]
          = Get(last.claimed)

(* C28.  Task ids are never reused: in every reachable state the tasks of  *)
(* the queue have pairwise distinct ids, no id of the queue is in          *)
(* director.completed_tasks, and no id is twice in                         *)
(* director.completed_tasks.                                               *)
C28_IdsNeverReused ==
    LET queue == state.director.task_queue
        completed_tasks == state.director.completed_tasks
    IN /\ \A a, b \in 1..Len(queue) : a # b => queue[a].id # queue[b].id
       /\ queue_ids(state) \cap Range(completed_tasks) = {}
       /\ \A a, b \in 1..Len(completed_tasks) :
             a # b => completed_tasks[a] # completed_tasks[b]

\* the director planned the queue, one of its tasks is completed and the
\* other is still queued
C28_Witness ==
    /\ initial.current_stage = "planning"
    /\ state.director.completed_tasks # <<>>
    /\ state.director.task_queue # <<>>

\* the sequence without its k-th element
without_index(queue, k) ==
    [n \in 1..(Len(queue) - 1) |-> IF n < k THEN queue[n] ELSE queue[n + 1]]

(* C29.  Exactly one queue mutation per worker step: a worker step leaves  *)
(* the queue as it was, or changes fields other than the id of the one     *)
(* task it claimed and leaves every other position as it was, or takes     *)
(* that one task out and leaves the others as they were and in their       *)
(* order.                                                                  *)
C29_OneQueueMutation ==
    [][last'.role \in WorkerRoles =>
          LET queue == state.director.task_queue
              after == state'.director.task_queue
          IN \/ after = queue
             \/ \E k \in 1..Len(queue) :
                   /\ last'.claimed = Some(queue[k].id)
                   /\ \/ /\ Len(after) = Len(queue)
                         /\ after[k].id = queue[k].id
                         /\ \A n \in 1..Len(queue) :
                               n # k => after[n] = queue[n]
                      \/ after = without_index(queue, k)]_vars

\* a worker completed a task while a failed task and nothing else shared
\* the queue with it
C29_Witness ==
    /\ last.result = "completed"
    /\ state.director.task_queue # <<>>
    /\ \A t \in Range(state.director.task_queue) : t.status = "failed"

(* C30.  Lazy, one-time agent state: in every reachable state a worker's   *)
(* agent state is there exactly when the role has been dispatched; and     *)
(* across every step an agent state that is there stays, is changed only   *)
(* by a step of its own role, is left as it was when that step finds no    *)
(* task, and keeps its completed_tasks as a prefix of the new list and its *)
(* current_task unless the step claims a task.                             *)
C30_LazyAgentState ==
    /\ [](\A role \in WorkerRoles :
             role_state(state, role) # None <=> role \in Range(selections))
    /\ [][\A role \in WorkerRoles :
             role_state(state, role) # None =>
                 /\ role_state(state', role) # None
                 /\ role # last'.role =>
                       role_state(state', role) = role_state(state, role)
                 /\ last'.claimed = None =>
                       role_state(state', role) = role_state(state, role)
                 /\ is_prefix(role_completed(state, role),
                              role_completed(state', role))]_vars

\* the world builder has been dispatched a second time after it completed
\* a task
C30_Witness ==
    /\ Len(selections) >= 2
    /\ selections[1] = "world_builder"
    /\ selections[Len(selections)] = "world_builder"
    /\ Len(role_completed(state, "world_builder")) = 2

\* the location but for the map id a completed task writes into it
location_design(location) == [location EXCEPT !.id = None]

(* C31.  Locations are append-only: across every step each location keeps  *)
(* its place and its name, size and tileset; at most one location is       *)
(* added, at the end, and only by a world builder step that claimed a task *)
(* whose location name no location had, compared without case, and then it *)
(* is the default stub (title-cased name, 20 x 15, tileset 1); and no two  *)
(* locations ever have the same name.                                      *)
C31_LocationsAppendOnly ==
    /\ [](\A a, b \in 1..Len(state.game_data.locations) :
             a # b => lower(state.game_data.locations[a].name) #
                      lower(state.game_data.locations[b].name))
    /\ [][LET locations == state.game_data.locations
              after == state'.game_data.locations
          IN /\ Len(after) \in {Len(locations), Len(locations) + 1}
             /\ \A n \in 1..Len(locations) :
                   location_design(after[n]) = location_design(locations[n])
             /\ Len(after) = Len(locations) + 1 =>
                   /\ last'.role = "world_builder"
                   /\ last'.claimed # None
                   /\ \A n \in 1..Len(locations) :
                         lower(locations[n].name) #
                             location_name_of(Get(last'.claimed))
                   /\ location_design(after[Len(after)]) =
                         GameLocation(
                             title(location_name_of(Get(last'.claimed))),
                             20, 15, 1)]_vars

\* the world builder claimed the task of a location the document already
\* held under a differently written name, and added none
C31_Witness ==
    /\ last.role = "world_builder"
    /\ last.claimed = Some("create_starting_town")
    /\ initial.game_data.locations # <<>>
    /\ state.game_data.locations[1].name #
          location_name_of("create_starting_town")
    /\ Len(state.game_data.locations) = 1

(* C32.  Missing entities are materialized: after a step that claimed a    *)
(* map_creation task game_data.locations holds a location with the task's  *)
(* location name, and after a step that claimed a cutscene_creation task   *)
(* game_data.cutscenes holds a cutscene with the task's cutscene name,      *)
(* whether or not it was there before.  The event engineer puts its        *)
(* default cutscene into the prompt details only, so this fails.           *)
C32_MissingEntitiesMaterialized ==
    last.claimed # None =>
        LET name == location_name_of(Get(last.claimed))
        IN /\ Get(last.task).type = "map_creation" =>
                 \E location \in Range(state.game_data.locations) :
                     lower(location.name) = name
           /\ Get(last.task).type = "cutscene_creation" =>
                 \E cutscene \in Range(state.game_data.cutscenes) :
                     lower(cutscene.name) = name

(* C33.  Planning batch: the step taken from a planning state leaves the   *)
(* queue with exactly two tasks, create_starting_town (map_creation,       *)
(* pending, unassigned, no dependencies) then create_intro_cutscene        *)
(* (cutscene_creation, pending, unassigned, depending on                   *)
(* create_starting_town), whatever the queue held before; so the batch has *)
(* a pending task without dependencies and every dependency is a task of   *)
(* the batch.                                                              *)
C33_PlanningBatch ==
    [][state.current_stage = "planning" =>
          LET queue == state'.director.task_queue
          IN /\ Len(queue) = 2
             /\ queue[1].id = "create_starting_town"
             /\ queue[1].type = "map_creation"
             /\ queue[1].dependencies = {}
             /\ queue[2].id = "create_intro_cutscene"
             /\ queue[2].type = "cutscene_creation"
             /\ queue[2].dependencies = {"create_starting_town"}
             /\ \A t \in Range(queue) :
                   /\ t.status = "pending"
                   /\ t.assigned_to = None
                   /\ t.result = None
                   /\ t.dependencies \subseteq queue_ids(state')
             /\ \E t \in Range(queue) : t.dependencies = {}]_vars

\* the director has just planned over a queue that held other tasks
C33_Witness ==
    /\ last.result = "planned"
    /\ initial.director.task_queue # <<>>
    /\ \A t \in Range(initial.director.task_queue) :
          t.id \notin queue_ids(state)

\* the state with the failed tasks taken out of the queue
without_failed(s) ==
    [s EXCEPT !.director.task_queue =
        SelectSeq(@, LAMBDA t : t.status # "failed")]

default_run ==
    /\ initial = GameImplementationState(<<>>, "planning", 0)
    /\ tools # None
    /\ Get(tools).map_infos_is_dict
    /\ Get(tools).map_infos \subseteq DOMAIN Get(tools).map_files

(* C35.  Default run completes: a run from initialize_game_state over a    *)
(* store whose creation calls succeed goes on until its third iteration    *)
(* and ends there, within the budget of 5, with an empty queue,            *)
(* director.completed_tasks = [create_starting_town,                       *)
(* create_intro_cutscene] and progress 0.2 (two tenths).                   *)
C35_DefaultRunCompletes ==
    default_run =>
        /\ i <= 3
        /\ i <= max_steps
        /\ pc = "done" <=> i = 3
        /\ i = 3 =>
              /\ state.director.task_queue = <<>>
              /\ state.director.completed_tasks =
                    <<"create_starting_town", "create_intro_cutscene">>
              /\ state.implementation_progress = 2

\* the default run has ended
C35_Witness ==
    /\ default_run
    /\ pc = "done"
    /\ selections = <<"director", "world_builder", "event_engineer">>

(* C36.  Stage never advances past implementation: in every state of a run *)
(* that starts in planning, as initialize_game_state does, or in           *)
(* implementation, the stage is planning or implementation, and the router *)
(* has never selected the tester.                                          *)
C36_StageAtMostImplementation ==
    initial.current_stage \in {"planning", "implementation"} =>
        /\ state.current_stage \in {"planning", "implementation"}
        /\ "tester" \notin Range(selections)
        /\ state.tester = None
        /\ pc = "loop" => route_implementation(state) # "tester"

\* a run from initialize_game_state has used up its budget
C36_Witness ==
    /\ initial = GameImplementationState(<<>>, "planning", 0)
    /\ i = max_steps
    /\ state.current_stage = "implementation"

\* stage implementation, tasks queued, and the router returns the director
stalled(s) ==
    /\ s.current_stage = "implementation"
    /\ s.director.task_queue # <<>>
    /\ route_implementation(s) = "director"

(* C37.  Stall is a fixpoint: the step taken from a stalled state (stage   *)
(* implementation, queue not empty, router returns the director) is the    *)
(* director's and leaves the whole state and the store as they were, so    *)
(* the state after it is stalled again; and a stalled run is over only     *)
(* when the budget is used up.                                             *)
C37_StallIsFixpoint ==
    /\ [](stalled(state) /\ pc = "done" => i = max_steps)
    /\ [][stalled(state) =>
             /\ last'.role = "director"
             /\ state' = state
             /\ tools' = tools
             /\ stalled(state')]_vars

\* a run stalled behind a failed task and used up its budget on director
\* steps
C37_Witness ==
    /\ stalled(state)
    /\ pc = "done"
    /\ Len(selections) = max_steps
    /\ selections[max_steps - 1] = "director"
    /\ selections[max_steps] = "director"
    /\ \E t \in Range(state.director.task_queue) : t.status = "failed"

\* in a run that planned its queue, create_starting_town sits failed in
\* the queue
starting_town_failed ==
    /\ initial.current_stage = "planning"
    /\ \E t \in Range(state.director.task_queue) :
          t.id = "create_starting_town" /\ t.status = "failed"

(* C38.  Failure cascades to dependents: in every state of a planned run   *)
(* in which create_starting_town has failed, create_intro_cutscene is in   *)
(* the queue, pending and unassigned, the event engineer has never been    *)
(* selected and is not selected next, and director.completed_tasks is      *)
(* empty.                                                                  *)
C38_FailureCascades ==
    starting_town_failed =>
        /\ \E u \in Range(state.director.task_queue) :
              /\ u.id = "create_intro_cutscene"
              /\ u.status = "pending"
              /\ u.assigned_to = None
        /\ Len(state.director.task_queue) = 2
        /\ "event_engineer" \notin Range(selections)
        /\ route_implementation(state) # "event_engineer"
        /\ state.event_engineer = None
        /\ state.director.completed_tasks = <<>>

\* the run went on to the end of its budget after create_starting_town
\* failed
C38_Witness ==
    /\ starting_town_failed
    /\ pc = "done"
    /\ i = max_steps

\* the switch ids the commands are built for, and the number of calls
MaxSwitch == 3

MaxCalls == 3

\* a client of the facade before any workflow runs
InitSwitch ==
    /\ state = GameImplementationState(<<>>, "planning", 0)
    /\ tools \in InitTools \ {None}
    /\ i = 0
    /\ pc = "loop"
    /\ selections = <<>>
    /\ last = [role |-> "none", claimed |-> None, result |-> "none",
               task |-> None, next |-> "director"]
    /\ initial = state
    /\ switch_calls = <<>>

\* one call of tools.add_change_switch_command(switch_id, value); the
\* function reads and writes nothing of the facade
AddChangeSwitch ==
    /\ tools # None
    /\ Len(switch_calls) < MaxCalls
    /\ \E switch_id \in 1..MaxSwitch, value \in BOOLEAN :
          switch_calls' =
              Append(switch_calls,
                     [switch_id |-> switch_id, value |-> value,
                      command |-> add_change_switch_command(switch_id,
                                                            value)])
    /\ UNCHANGED <<state, tools, i, pc, selections, last, initial>>

SwitchSpec == InitSwitch /\ [][AddChangeSwitch]_vars

(* C39.  add_change_switch_command distinguishes its boolean argument: the *)
(* command returned has code 121 and its third parameter is 0 when value   *)
(* is True and 1 when value is False, so the commands built for True and   *)
(* for False differ.  "value and 0 or 1" is 1 for both, because the 0      *)
(* chosen for True is falsy, so this fails.                                *)
C39_SwitchCommandDistinguishes ==
    \A m, n \in DOMAIN switch_calls :
        LET c == switch_calls[m]
            d == switch_calls[n]
        IN /\ c.command.code = 121
           /\ c.command.parameters[3] = py_int(IF c.value THEN 0 ELSE 1)
           /\ c.value # d.value => c.command # d.command

====
